---- MODULE Spec2Model ----
(***************************************************************************)
(* fileshred: crash-resumable secure deletion of one file.                 *)
(*                                                                         *)
(* The repository holds three variants of Shred:                           *)
(*   "guarded"   src/unnamed/part_000:205  (lock on the original path,     *)
(*               isFileLocked stubbed to `return false`)                   *)
(*   "tempcheck" src/shred.go:107          (contention check on the        *)
(*               working file only, after the first rename)                *)
(*   "simple"    src/shred.go:240          (overwrite a scratch file and   *)
(*               rename it over the original)                              *)
(* One behaviour of the model runs one variant (impl) on one directory.    *)
(* Every system call that reads or writes shared state (directory, inodes, *)
(* advisory locks, checkpoint file) is one step of the calling invocation. *)
(***************************************************************************)
EXTENDS Integers, Naturals, Sequences, FiniteSets, TLC

\* ---------------------------------------------------------------- bounds
NumProcs == 2      \* Shred invocations in one behaviour
MaxPasses == 3     \* largest `passes` argument
MinPasses == 0 - 1 \* smallest `passes` argument (a negative count)
MaxKills == 1      \* invocations killed in one behaviour

\* ------------------------------------------------------ program constants
SizeLimit == 1073741824   \* 1024*1024*1024, the 1GB limit
RenameRounds == 10        \* obfuscation renames
SmallSize == 128          \* the test's small file

Procs == 1..NumProcs
PassArgs == MinPasses..MaxPasses
Sizes == {0, SmallSize, SizeLimit, SizeLimit + 1}
Impls == {"guarded", "tempcheck", "simple"}

\* randomString(12): a string over the charset. No step of Shred reads the
\* name it drew, so the model draws the whole 12-character name from one value.
Charset == {"x"}

\* ----------------------------------------------------------------- names
Path == <<"f">>                  \* the path argument of Shred
Target == <<"f_target">>         \* the symlink's target (path + "_target")
TmpOf(path) == Append(path, "tmp")             \* path + ".tmp"
Obfuscated(path, s) == Append(path, s)         \* TempPath + "." + newName
ScratchName(p) == <<"shredtemp", p>>           \* ioutil.TempFile("", "shredtemp")
EmptyPath == << >>                             \* TempPath == ""

\* who holds the exclusive flock on an inode
Free == << >>
Ext == <<0>>       \* the holder outside Shred (the test's locked file)
Holder(p) == <<p>> \* invocation p
NoIno == 0         \* no inode: the lookup failed


VARIABLES
    impl,      \* which Shred variant runs
    test,      \* the test case: [fileType, fileSize] of what is set up at Path
    passes,    \* the `passes` argument every invocation is given
    dir,       \* directory: name -> [ino, link]
    inodes,    \* inode -> [size, writes, lastLen]
    lock,      \* inode -> flock holder (Free, Ext, or an invocation)
    meta,      \* content of Path + ".shredmeta"
    procs,     \* invocation -> its local state
    lastPass   \* Pass written by the latest completed checkpoint save (0 before any)

vars == <<impl, test, passes, dir, inodes, lock, meta, procs, lastPass>>

\* ---------------------------------------------------------- file system
FileEntry(i) == [ino |-> i, link |-> EmptyPath]
LinkEntry(to) == [ino |-> NoIno, link |-> to]

\* os.Stat / os.OpenFile follow one symbolic link; NoIno when nothing is there
Resolve(d, name) ==
    IF name \notin DOMAIN d THEN NoIno
    ELSE IF d[name].ino # NoIno THEN d[name].ino
    ELSE IF d[name].link \in DOMAIN d THEN d[d[name].link].ino
    ELSE NoIno

\* the new name made without taking the old one away (a copy, or a link)
RenamedKeepsOld(d, old, new) ==
    [n \in DOMAIN d \cup {new} |-> IF n = new THEN d[old] ELSE d[n]]

\* os.Rename(old, new): moves the directory entry itself (a link is not followed)
Renamed(d, old, new) ==
    [n \in (DOMAIN d \ {old}) \cup {new} |-> IF n = new THEN d[old] ELSE d[n]]

\* os.Remove forgotten: the entry stays
RemovedKeepsEntry(d, name) == d

\* os.Remove(name)
Removed(d, name) == [n \in DOMAIN d \ {name} |-> d[n]]

Max(a, b) == IF a >= b THEN a ELSE b

\* File.WriteAt(buf, 0) with len(buf) = n
Written(f, n) == [size |-> Max(f.size, n), writes |-> f.writes + 1, lastLen |-> n]

\* File.Truncate(0)
Truncated(f) == [f EXCEPT !.size = 0]

\* ------------------------------------------------------------ checkpoint
ShredMetadata(pass, temp) == [Pass |-> pass, TempPath |-> temp, OriginalPath |-> Path]

\* the checkpoint file Path + ".shredmeta": absent, created but still empty
\* (os.Create has truncated it, Encode has not written yet), or one record
NoFile == [st |-> "absent", rec |-> ShredMetadata(0, EmptyPath)]
Torn == [st |-> "empty", rec |-> ShredMetadata(0, EmptyPath)]
Stored(md) == [st |-> "full", rec |-> md]

\* loadMetadata + the fallback of Shred: a missing or undecodable checkpoint
\* gives the fresh record
loadMetadata(m) ==
    IF m.st = "full" THEN m.rec ELSE ShredMetadata(0, EmptyPath)

\* isFileLocked of src/unnamed/part_000: returns false before doing anything
isFileLockedStub(ino) == FALSE

\* isFileLocked of src/shred.go: true iff the non-blocking flock fails
isFileLocked(ino) == ino # NoIno /\ lock[ino] # Free

\* the checkpoint counting the passes still to do instead of those done
NextPassRemaining(i) == passes - (i + 1)

\* metadata.Pass = i + 1
NextPass(i) == i + 1

\* the limit test off by one: info.Size() >= 1024*1024*1024
TooLargeInclusive(size) == size >= SizeLimit

\* info.Size() > 1024*1024*1024
TooLarge(size) == size > SizeLimit

\* ------------------------------------------------------------ invocations
Idle == [pc |-> "idle", md |-> ShredMetadata(0, EmptyPath),
         size |-> 0, fd |-> NoIno, tfd |-> NoIno, i |-> 0, j |-> 0,
         err |-> "none", ops |-> << >>, ret |-> "none",
         saved |-> FALSE, resume |-> FALSE, lockedAtStart |-> FALSE]

Running(p) == procs[p].pc \notin {"idle", "done", "killed"}
Returned(p) == procs[p].pc = "done"
Ok(p) == Returned(p) /\ procs[p].err = "nil"

\* the overwrite loop running one pass too many: i <= passes
AfterPassOffByOne(i, n) == IF i <= n THEN "loop" ELSE "obf"

\* the pc after the overwrite loop's test, and after the rename loop's test
AfterPass(i, n) == IF i < n THEN "loop" ELSE "obf"
AfterRound(j) == IF j < RenameRounds THEN "obf" ELSE "trunc"

Holds(p) == \E n \in DOMAIN lock : lock[n] = Holder(p)
Released(p) == [n \in DOMAIN lock |-> IF lock[n] = Holder(p) THEN Free ELSE lock[n]]

\* what is left of an invocation once its frame is gone (it returned, or its
\* process was killed): the result and the record of what it did
Gone(me, how) ==
    [Idle EXCEPT !.pc = how, !.err = me.err, !.ops = me.ops, !.saved = me.saved,
                 !.resume = me.resume, !.lockedAtStart = me.lockedAtStart]

\* return err: the deferred Flock(LOCK_UN)/Close run before the caller sees it
Fail(p, e) ==
    IF Holds(p)
    THEN [procs[p] EXCEPT !.pc = "unlock", !.err = e, !.saved = FALSE]
    ELSE Gone([procs[p] EXCEPT !.err = e, !.saved = FALSE], "done")

\* the test cases: the size varies on the regular file; the symlink's target
\* and the locked file are 128 bytes long; the non-existent file has no size
TestCases ==
    {[fileType |-> "regular", fileSize |-> s] : s \in Sizes}
    \cup {[fileType |-> k, fileSize |-> SmallSize] : k \in {"symlink", "locked"}}
    \cup {[fileType |-> "missing", fileSize |-> 0]}

Init ==
    /\ impl \in Impls
    /\ test \in TestCases
    /\ passes \in PassArgs
    /\ dir = CASE test.fileType = "missing" -> << >>
               [] test.fileType = "symlink" ->
                    (Path :> LinkEntry(Target)) @@ (Target :> FileEntry(1))
               [] OTHER -> (Path :> FileEntry(1))
    /\ inodes = IF test.fileType = "missing" THEN << >>
                ELSE (1 :> [size |-> test.fileSize, writes |-> 0, lastLen |-> 0])
    /\ lock = IF test.fileType = "missing" THEN << >>
              ELSE (1 :> IF test.fileType = "locked" THEN Ext ELSE Free)
    /\ meta = NoFile
    /\ procs = [p \in Procs |-> Idle]
    /\ lastPass = 0

Quiet == UNCHANGED <<impl, test, passes>>

\* The caller invokes Shred(Path, n).
Start(p) ==
    /\ procs[p].pc = "idle"
    /\ p > 1 => procs[p - 1].pc # "idle"
    /\ procs' = [procs EXCEPT ![p] =
            [@ EXCEPT !.pc = IF impl = "simple" THEN "open" ELSE "stat",
                      !.resume = /\ \E q \in Procs : /\ procs[q].pc = "killed"
                                                     /\ procs[q].saved
                                 /\ \A q \in Procs : ~Running(q),
                      !.lockedAtStart = /\ Resolve(dir, Path) # NoIno
                                        /\ lock[Resolve(dir, Path)] = Ext]]
    /\ UNCHANGED <<dir, inodes, lock, meta, lastPass>>
    /\ Quiet

\* os.Stat with its error ignored: Shred goes on to load the checkpoint
StatIgnoresError(p) ==
    /\ procs[p].pc = "stat"
    /\ LET ino == Resolve(dir, Path) IN
       procs' = [procs EXCEPT ![p] =
          IF ino # NoIno /\ TooLarge(inodes[ino].size) THEN Fail(p, "SizeExceeded")
          ELSE [@ EXCEPT !.pc = "load",
                         !.size = IF ino = NoIno THEN 0 ELSE inodes[ino].size]]
    /\ UNCHANGED <<dir, inodes, lock, meta, lastPass>>
    /\ Quiet

\* os.Stat(path), the size limit, and (guarded) isFileLocked(path)
Stat(p) ==
    /\ procs[p].pc = "stat"
    /\ LET ino == Resolve(dir, Path) IN
       procs' = [procs EXCEPT ![p] =
          IF ino = NoIno THEN Fail(p, "NotFound")
          ELSE IF TooLarge(inodes[ino].size) THEN Fail(p, "SizeExceeded")
          ELSE IF impl = "guarded" /\ isFileLockedStub(ino) THEN Fail(p, "Busy")
          ELSE [@ EXCEPT !.pc = "load", !.size = inodes[ino].size]]
    /\ UNCHANGED <<dir, inodes, lock, meta, lastPass>>
    /\ Quiet

\* loadMetadata(path)
Load(p) ==
    /\ procs[p].pc = "load"
    /\ LET m == loadMetadata(meta) IN
       procs' = [procs EXCEPT ![p] =
          [@ EXCEPT !.md = m,
                    !.pc = IF impl = "guarded" THEN "open"
                           ELSE IF m.TempPath = EmptyPath THEN "rename" ELSE "chk"]]
    /\ UNCHANGED <<dir, inodes, lock, meta, lastPass>>
    /\ Quiet

\* os.OpenFile(path, O_WRONLY): guarded and simple open the original path
Open(p) ==
    /\ procs[p].pc = "open"
    /\ LET ino == Resolve(dir, Path) IN
       procs' = [procs EXCEPT ![p] =
          IF ino = NoIno THEN Fail(p, "NotFound")
          ELSE [@ EXCEPT !.pc = "flock", !.fd = ino]]
    /\ UNCHANGED <<dir, inodes, lock, meta, lastPass>>
    /\ Quiet

\* syscall.Flock(fd, LOCK_EX): blocks while anybody else holds the lock
Flock(p) ==
    /\ procs[p].pc = "flock"
    /\ LET ino == IF impl = "tempcheck" THEN procs[p].tfd ELSE procs[p].fd IN
       /\ lock[ino] = Free
       /\ lock' = [lock EXCEPT ![ino] = Holder(p)]
       /\ procs' = [procs EXCEPT ![p] =
            [@ EXCEPT !.pc = CASE impl = "guarded" ->
                                    IF procs[p].md.TempPath = EmptyPath THEN "rename" ELSE "opentmp"
                               [] impl = "tempcheck" -> AfterPass(procs[p].md.Pass, passes)
                               [] OTHER -> "mktemp",
                      !.i = IF impl = "tempcheck" THEN procs[p].md.Pass ELSE procs[p].i,
                      !.saved = FALSE]]
    /\ UNCHANGED <<dir, inodes, meta, lastPass>>
    /\ Quiet

\* os.Rename(path, path + ".tmp") when the checkpoint names no working file
Rename(p) ==
    /\ procs[p].pc = "rename"
    /\ IF Path \notin DOMAIN dir
       THEN /\ procs' = [procs EXCEPT ![p] = Fail(p, "NotFound")]
            /\ UNCHANGED dir
       ELSE /\ dir' = Renamed(dir, Path, TmpOf(Path))
            /\ procs' = [procs EXCEPT ![p] =
                 [@ EXCEPT !.pc = "save",
                           !.ret = IF impl = "guarded" THEN "opentmp" ELSE "chk",
                           !.md = ShredMetadata(procs[p].md.Pass, TmpOf(Path)),
                           !.ops = Append(@, "rename")]]
    /\ UNCHANGED <<inodes, lock, meta, lastPass>>
    /\ Quiet

\* saveMetadata, first half: os.Create truncates the checkpoint file
SaveCreate(p) ==
    /\ procs[p].pc = "save"
    /\ meta' = Torn
    /\ procs' = [procs EXCEPT ![p] = [@ EXCEPT !.pc = "encode"]]
    /\ UNCHANGED <<dir, inodes, lock, lastPass>>
    /\ Quiet

\* saveMetadata, second half: encoder.Encode writes the whole record
SaveEncode(p) ==
    /\ procs[p].pc = "encode"
    /\ meta' = Stored(procs[p].md)
    /\ lastPass' = procs[p].md.Pass
    /\ procs' = [procs EXCEPT ![p] =
         [@ EXCEPT !.pc = procs[p].ret, !.ret = "none", !.saved = TRUE,
                   !.ops = Append(@, "save")]]
    /\ UNCHANGED <<dir, inodes, lock>>
    /\ Quiet

\* isFileLocked(metadata.TempPath) of tempcheck: open, then try the lock
Check(p) ==
    /\ procs[p].pc = "chk"
    /\ LET ino == Resolve(dir, procs[p].md.TempPath) IN
       IF ino = NoIno
       THEN /\ procs' = [procs EXCEPT ![p] = [@ EXCEPT !.pc = "opentmp", !.saved = FALSE]]
            /\ UNCHANGED lock
       ELSE IF isFileLocked(ino)
       THEN /\ procs' = [procs EXCEPT ![p] = Fail(p, "Busy")]
            /\ UNCHANGED lock
       ELSE /\ lock' = [lock EXCEPT ![ino] = Holder(p)]
            /\ procs' = [procs EXCEPT ![p] = [@ EXCEPT !.pc = "chkrel", !.saved = FALSE]]
    /\ UNCHANGED <<dir, inodes, meta, lastPass>>
    /\ Quiet

\* isFileLocked returns false: its deferred Flock(LOCK_UN) and Close
CheckRelease(p) ==
    /\ procs[p].pc = "chkrel"
    /\ lock' = Released(p)
    /\ procs' = [procs EXCEPT ![p] = [@ EXCEPT !.pc = "opentmp"]]
    /\ UNCHANGED <<dir, inodes, meta, lastPass>>
    /\ Quiet

\* os.OpenFile(metadata.TempPath, O_WRONLY)
OpenTemp(p) ==
    /\ procs[p].pc = "opentmp"
    /\ LET ino == Resolve(dir, procs[p].md.TempPath) IN
       procs' = [procs EXCEPT ![p] =
          IF ino = NoIno THEN Fail(p, "NotFound")
          ELSE [@ EXCEPT !.tfd = ino,
                         !.i = IF impl = "guarded" THEN procs[p].md.Pass ELSE procs[p].i,
                         !.pc = IF impl = "guarded" THEN AfterPass(procs[p].md.Pass, passes)
                                ELSE "flock",
                         !.saved = FALSE]]
    /\ UNCHANGED <<dir, inodes, lock, meta, lastPass>>
    /\ Quiet

\* one overwrite pass: (guarded) isFileLocked(TempPath), rand.Read,
\* tempFile.WriteAt(randomData, 0), metadata.Pass = i + 1
Overwrite(p) ==
    /\ procs[p].pc = "loop"
    /\ LET me == procs[p] IN
       IF impl = "guarded" /\ isFileLockedStub(Resolve(dir, me.md.TempPath))
       THEN /\ procs' = [procs EXCEPT ![p] = Fail(p, "Busy")]
            /\ UNCHANGED inodes
       ELSE /\ inodes' = [inodes EXCEPT ![me.tfd] = Written(@, me.size)]
            /\ procs' = [procs EXCEPT ![p] =
                 [@ EXCEPT !.md = ShredMetadata(NextPass(me.i), me.md.TempPath),
                           !.i = me.i + 1,
                           !.pc = "save",
                           !.ret = AfterPass(me.i + 1, passes),
                           !.saved = FALSE,
                           !.ops = Append(@, "write")]]
    /\ UNCHANGED <<dir, lock, meta, lastPass>>
    /\ Quiet

\* one obfuscation round: randomString(12), os.Rename(TempPath, newPath)
Obfuscate(p) ==
    /\ procs[p].pc = "obf"
    /\ LET me == procs[p] IN
       IF me.md.TempPath \notin DOMAIN dir
       THEN /\ procs' = [procs EXCEPT ![p] = Fail(p, "NotFound")]
            /\ UNCHANGED dir
       ELSE \E s \in Charset :
            /\ dir' = Renamed(dir, me.md.TempPath, Obfuscated(me.md.TempPath, s))
            /\ procs' = [procs EXCEPT ![p] =
                 [@ EXCEPT !.md = ShredMetadata(me.md.Pass, Obfuscated(me.md.TempPath, s)),
                           !.j = me.j + 1,
                           !.pc = "save",
                           !.ret = AfterRound(me.j + 1),
                           !.saved = FALSE,
                           !.ops = Append(@, "obfuscate")]]
    /\ UNCHANGED <<inodes, lock, meta, lastPass>>
    /\ Quiet

\* tempFile.Truncate(0)
Truncate(p) ==
    /\ procs[p].pc = "trunc"
    /\ inodes' = [inodes EXCEPT ![procs[p].tfd] = Truncated(@)]
    /\ procs' = [procs EXCEPT ![p] =
         [@ EXCEPT !.pc = "rmmeta", !.saved = FALSE, !.ops = Append(@, "truncate")]]
    /\ UNCHANGED <<dir, lock, meta, lastPass>>
    /\ Quiet

\* os.Remove(metadata.OriginalPath + ".shredmeta")
RemoveMeta(p) ==
    /\ procs[p].pc = "rmmeta"
    /\ IF meta = NoFile
       THEN /\ procs' = [procs EXCEPT ![p] = Fail(p, "NotFound")]
            /\ UNCHANGED meta
       ELSE /\ meta' = NoFile
            /\ procs' = [procs EXCEPT ![p] =
                 [@ EXCEPT !.pc = "rmfile", !.ops = Append(@, "rmmeta")]]
    /\ UNCHANGED <<dir, inodes, lock, lastPass>>
    /\ Quiet

\* os.Remove(metadata.TempPath); return nil
RemoveFile(p) ==
    /\ procs[p].pc = "rmfile"
    /\ IF procs[p].md.TempPath \notin DOMAIN dir
       THEN /\ procs' = [procs EXCEPT ![p] = Fail(p, "NotFound")]
            /\ UNCHANGED dir
       ELSE /\ dir' = Removed(dir, procs[p].md.TempPath)
            /\ procs' = [procs EXCEPT ![p] =
                 [@ EXCEPT !.pc = "unlock", !.err = "nil",
                           !.ops = Append(@, "rmfile")]]
    /\ UNCHANGED <<inodes, lock, meta, lastPass>>
    /\ Quiet

\* the deferred syscall.Flock(fd, LOCK_UN) and Close, then the caller has the result
Unlock(p) ==
    /\ procs[p].pc = "unlock"
    /\ lock' = Released(p)
    /\ procs' = [procs EXCEPT ![p] = Gone([@ EXCEPT !.saved = FALSE], "done")]
    /\ UNCHANGED <<dir, inodes, meta, lastPass>>
    /\ Quiet

\* -------------------------------------------------- simple (shred.go:240)
ScratchIno(p) == 1 + p

\* file.Stat, rand.Read, ioutil.TempFile("", "shredtemp")
MakeScratch(p) ==
    /\ procs[p].pc = "mktemp"
    /\ dir' = dir @@ (ScratchName(p) :> FileEntry(ScratchIno(p)))
    /\ inodes' = inodes @@ (ScratchIno(p) :> [size |-> 0, writes |-> 0, lastLen |-> 0])
    /\ lock' = lock @@ (ScratchIno(p) :> Free)
    /\ procs' = [procs EXCEPT ![p] =
         [@ EXCEPT !.size = inodes[procs[p].fd].size,
                   !.tfd = ScratchIno(p),
                   !.i = 0,
                   !.pc = IF 0 < passes THEN "write3" ELSE "rename3",
                   !.ops = Append(@, "mktemp")]]
    /\ UNCHANGED <<meta, lastPass>>
    /\ Quiet

\* tempFile.WriteAt(randomData, 0); tempFile.Sync()
WriteScratch(p) ==
    /\ procs[p].pc = "write3"
    /\ inodes' = [inodes EXCEPT ![procs[p].tfd] = Written(@, procs[p].size)]
    /\ procs' = [procs EXCEPT ![p] =
         [@ EXCEPT !.i = @ + 1,
                   !.pc = IF procs[p].i + 1 < passes THEN "write3" ELSE "rename3",
                   !.ops = Append(@, "write")]]
    /\ UNCHANGED <<dir, lock, meta, lastPass>>
    /\ Quiet

\* os.Rename(tempFile.Name(), path): replaces whatever entry is at path
ReplaceOriginal(p) ==
    /\ procs[p].pc = "rename3"
    /\ dir' = Renamed(dir, ScratchName(p), Path)
    /\ procs' = [procs EXCEPT ![p] =
         [@ EXCEPT !.pc = "rmfile3", !.ops = Append(@, "rename")]]
    /\ UNCHANGED <<inodes, lock, meta, lastPass>>
    /\ Quiet

\* return os.Remove(path)
RemoveOriginal(p) ==
    /\ procs[p].pc = "rmfile3"
    /\ IF Path \notin DOMAIN dir
       THEN /\ procs' = [procs EXCEPT ![p] =
                 [@ EXCEPT !.pc = "rmtemp", !.err = "NotFound"]]
            /\ UNCHANGED dir
       ELSE /\ dir' = Removed(dir, Path)
            /\ procs' = [procs EXCEPT ![p] =
                 [@ EXCEPT !.pc = "rmtemp", !.err = "nil", !.ops = Append(@, "rmfile")]]
    /\ UNCHANGED <<inodes, lock, meta, lastPass>>
    /\ Quiet

\* the deferred tempFile.Close() and os.Remove(tempFile.Name())
RemoveScratch(p) ==
    /\ procs[p].pc = "rmtemp"
    /\ dir' = IF ScratchName(p) \in DOMAIN dir THEN Removed(dir, ScratchName(p)) ELSE dir
    /\ procs' = [procs EXCEPT ![p] = [@ EXCEPT !.pc = "unlock"]]
    /\ UNCHANGED <<inodes, lock, meta, lastPass>>
    /\ Quiet

\* ---------------------------------------------------------- environment
\* the process running Shred is killed: the kernel closes its descriptors
Kill(p) ==
    /\ Running(p)
    /\ Cardinality({q \in Procs : procs[q].pc = "killed"}) < MaxKills
    /\ lock' = Released(p)
    /\ procs' = [procs EXCEPT ![p] = Gone(@, "killed")]
    /\ UNCHANGED <<dir, inodes, meta, lastPass>>
    /\ Quiet

\* the other lock holder closes its descriptor
ExtUnlock ==
    /\ \E n \in DOMAIN lock : lock[n] = Ext
    /\ lock' = [n \in DOMAIN lock |-> IF lock[n] = Ext THEN Free ELSE lock[n]]
    /\ UNCHANGED <<dir, inodes, meta, procs, lastPass>>
    /\ Quiet

Next ==
    \/ \E p \in Procs :
         \/ Start(p) \/ Stat(p) \/ Load(p) \/ Open(p) \/ Flock(p) \/ Rename(p)
         \/ SaveCreate(p) \/ SaveEncode(p) \/ Check(p) \/ CheckRelease(p)
         \/ OpenTemp(p) \/ Overwrite(p) \/ Obfuscate(p) \/ Truncate(p)
         \/ RemoveMeta(p) \/ RemoveFile(p) \/ Unlock(p)
         \/ MakeScratch(p) \/ WriteScratch(p) \/ ReplaceOriginal(p)
         \/ RemoveOriginal(p) \/ RemoveScratch(p)
         \/ Kill(p)
    \/ ExtUnlock

Spec == Init /\ [][Next]_vars

\* Shred of src/unnamed/part_000 alone, with the steps it can take
InitGuarded == Init /\ impl = "guarded"

NextGuarded ==
    \/ \E p \in Procs :
         \/ Start(p) \/ Stat(p) \/ Load(p) \/ Open(p) \/ Flock(p) \/ Rename(p)
         \/ SaveCreate(p) \/ SaveEncode(p)
         \/ OpenTemp(p) \/ Overwrite(p) \/ Obfuscate(p) \/ Truncate(p)
         \/ RemoveMeta(p) \/ RemoveFile(p) \/ Unlock(p)
         \/ Kill(p)
    \/ ExtUnlock

SpecGuarded == InitGuarded /\ [][NextGuarded]_vars

\* ------------------------------------------------------------ properties
\* a name of the job: the original path or any name derived from it
JobName(n) == Len(n) >= Len(Path) /\ SubSeq(n, 1, Len(Path)) = Path
NothingLeft == meta = NoFile /\ \A n \in DOMAIN dir : ~JobName(n)
Eligible == test.fileSize <= SizeLimit
NoKill == \A q \in Procs : procs[q].pc # "killed"
\* p has overwritten, obfuscated or truncated the working file
Worked(p) ==
    \E k \in 1..Len(procs[p].ops) : procs[p].ops[k] \in {"write", "obfuscate", "truncate"}
Blocked(p) ==
    /\ procs[p].pc = "flock"
    /\ lock[IF impl = "tempcheck" THEN procs[p].tfd ELSE procs[p].fd] # Free

\* C1: an invocation started after an earlier one was killed right after a
\* checkpoint save (same pass count, file within the size limit) returns
\* success and leaves neither the file nor the checkpoint.
C1_IdempotentResume ==
    \A p \in Procs :
        (Eligible /\ procs[p].resume /\ Returned(p)) =>
            (procs[p].err = "nil" /\ NothingLeft)

\* C2: in every state in which an invocation has returned success, nothing is
\* left at the original path, at path.tmp, at any obfuscated name, or at the
\* checkpoint path.
C2_TerminalCleanup == \A p \in Procs : Ok(p) => NothingLeft

C2_Witness == \E p, q \in Procs : Ok(p) /\ procs[q].pc = "killed" /\ procs[p].ops # << >>

\* C3: of two invocations on the same fresh regular file, exactly one returns
\* success, the other returns Busy or NotFound, and at most one of them has
\* overwritten, renamed (obfuscated) or truncated the working file.
C3_MutualExclusion ==
    (impl # "simple" /\ test.fileType = "regular" /\ Eligible /\ NoKill
        /\ \A p \in Procs : Returned(p)) =>
    /\ Cardinality({p \in Procs : procs[p].err = "nil"}) = 1
    /\ \A p \in Procs : procs[p].err \in {"nil", "Busy", "NotFound"}
    /\ Cardinality({p \in Procs : Worked(p)}) <= 1

\* C4: the step on which an invocation gets its result gives SizeExceeded if
\* and only if the file at the path is larger than 1 GiB, and that step leaves
\* the directory, the file, the locks and the checkpoint as they were, after
\* an invocation that mutated nothing.
C4_SizeBound ==
    [][\A p \in Procs :
        (procs[p].err = "none" /\ procs'[p].err # "none") =>
            /\ (procs'[p].err = "SizeExceeded") <=>
                  (Path \in DOMAIN dir /\ inodes[Resolve(dir, Path)].size > SizeLimit)
            /\ (procs'[p].err = "SizeExceeded") =>
                  /\ <<dir, inodes, lock, meta>>' = <<dir, inodes, lock, meta>>
                  /\ procs'[p].ops = << >>]_vars

C4_Witness ==
    \E p \in Procs : Returned(p) /\ procs[p].err = "SizeExceeded" /\ procs[p].ops = << >>

\* k times: op, then a checkpoint save
Pairs(op, k) == [x \in 1..(2 * k) |-> IF x % 2 = 1 THEN op ELSE "save"]
\* the disk mutations of one whole run with n passes
ExpectedOps(n) ==
    <<"rename", "save">> \o Pairs("write", n) \o Pairs("obfuscate", RenameRounds)
        \o <<"truncate", "rmmeta", "rmfile">>

\* C5: one uncontended invocation on an existing regular file within the size
\* limit, with no checkpoint and passes >= 0, returns success after exactly:
\* rename, save, passes x (overwrite, save), 10 x (rename, save), truncate,
\* checkpoint deletion, file deletion.
C5_RunOrder ==
    (test.fileType = "regular" /\ Eligible /\ passes >= 0 /\ Returned(1)
        /\ \A q \in Procs \ {1} : procs[q].pc = "idle") =>
    (procs[1].err = "nil" /\ procs[1].ops = ExpectedOps(passes))

C5_Witness ==
    /\ Ok(1) /\ passes = MaxPasses /\ test = [fileType |-> "regular", fileSize |-> 0]
    /\ \A q \in Procs \ {1} : procs[q].pc = "idle"
    /\ Len(procs[1].ops) = 2 + 2 * MaxPasses + 2 * RenameRounds + 3

\* C6: an invocation started while another holder has the exclusive lock on
\* the file never waits for the lock, performs no disk mutation, and returns
\* Busy.
C6_BusyAtStart ==
    \A p \in Procs :
        procs[p].lockedAtStart =>
            /\ ~Blocked(p)
            /\ procs[p].ops = << >>
            /\ Returned(p) => procs[p].err = "Busy"

\* C7: when no file exists at the path, the first step of Shred returns
\* NotFound, and neither the checkpoint nor any other file is created.
C7_NonExistent ==
    [][\A p \in Procs :
        (procs[p].pc = "stat" /\ Path \notin DOMAIN dir
            /\ procs'[p].pc \notin {"stat", "killed"}) =>
        /\ procs'[p].pc = "done"
        /\ procs'[p].err = "NotFound"
        /\ procs'[p].ops = << >>
        /\ <<dir, inodes, meta>>' = <<dir, inodes, meta>>]_vars

C7_Witness ==
    /\ test.fileType = "missing"
    /\ \E p \in Procs : Returned(p) /\ procs[p].err = "NotFound" /\ procs[p].ops = << >>
    /\ dir = << >> /\ meta = NoFile

\* C8: the Pass value written by a checkpoint save is never smaller than the
\* one written by the save before it, across invocations and kills.
C8_MonotonicPasses == [][lastPass' >= lastPass]_vars

C8_Witness ==
    /\ lastPass = MaxPasses
    /\ \E q \in Procs : procs[q].pc = "killed"
    /\ \E q \in Procs : Running(q)

\* the pass count of every call in the test: Shred(path, 3)
TestPasses == 3

\* C9: two Shred(path, 3) invocations on the same 128-byte regular file both
\* return without error, and afterwards no file exists at the path.
C9_ConcurrentAsTested ==
    (test = [fileType |-> "regular", fileSize |-> SmallSize] /\ passes = TestPasses
        /\ \A p \in 1..2 : Returned(p)) =>
    (\A p \in 1..2 : procs[p].err = "nil") /\ Path \notin DOMAIN dir

\* C10: after a successful Shred of a symbolic link, neither the link nor its
\* target file exists.
C10_SymlinkTarget ==
    \A p \in Procs :
        (test.fileType = "symlink" /\ Ok(p)) =>
            (Path \notin DOMAIN dir /\ Target \notin DOMAIN dir)

\* full-file overwrites written so far to the file being shredded
Overwrites == IF 1 \in DOMAIN inodes THEN inodes[1].writes ELSE 0
\* p's step appended op to the record of what p did
Did(p, op) ==
    /\ Len(procs'[p].ops) = Len(procs[p].ops) + 1
    /\ procs'[p].ops[Len(procs'[p].ops)] = op

\* the invocations that have written at least one overwrite pass
Writers == {q \in Procs : \E k \in 1..Len(procs[q].ops) : procs[q].ops[k] = "write"}

\* C11: pass i+1 is written only by an invocation whose loop index i is the
\* Pass of the latest completed checkpoint save (so it repeats at most the one
\* pass that save did not record); the checkpoint's Pass never exceeds the
\* number of overwrites written to the working file, and every invocation that
\* wrote leaves at most one overwrite unrecorded.
C11_PassOrdering ==
    [][impl # "simple" =>
        /\ \A p \in Procs : Did(p, "write") => procs[p].i = lastPass
        /\ meta'.st = "full" =>
                /\ meta'.rec.Pass <= Overwrites'
                /\ Overwrites' <= meta'.rec.Pass + Cardinality(Writers')]_vars

\* p's next step is the rename that creates the name n
AboutToCreate(p, n) ==
    \/ procs[p].pc = "rename" /\ n = TmpOf(Path)
    \/ procs[p].pc = "obf" /\ \E c \in Charset : n = Obfuscated(procs[p].md.TempPath, c)

\* C12: whenever the checkpoint file holds a record, the TempPath it names is
\* a file on disk, or an invocation is about to do the rename that creates
\* that name.
C12_CheckpointValid ==
    meta.st = "full" =>
        \/ meta.rec.TempPath \in DOMAIN dir
        \/ \E p \in Procs : AboutToCreate(p, meta.rec.TempPath)

\* p has done op
Has(p, op) == \E k \in 1..Len(procs[p].ops) : procs[p].ops[k] = op
\* the byte length of the file a name leads to
LengthAt(ins, d, n) == ins[Resolve(d, n)].size

\* C13: the checkpoint is deleted only when the working file has length 0, and
\* the working file is deleted only when the checkpoint is absent; once an
\* invocation has deleted the checkpoint, while no checkpoint exists every
\* file left under a name of the job has length 0; and once a working file
\* has been deleted no checkpoint is on disk.
C13_FinalizeOrdering ==
    [][impl # "simple" =>
        /\ \A p \in Procs :
            /\ Did(p, "rmmeta") => inodes[procs[p].tfd].size = 0
            /\ Did(p, "rmfile") => meta = NoFile
        /\ ((\E p \in Procs : Has(p, "rmmeta")' ) /\ meta' = NoFile) =>
                \A n \in DOMAIN dir' :
                    (JobName(n) /\ Resolve(dir', n) # NoIno) => LengthAt(inodes', dir', n) = 0
        /\ (\E p \in Procs : Has(p, "rmfile")') => meta' = NoFile]_vars

\* C15: no invocation ever waits for the exclusive lock: when it comes to
\* acquire the lock and somebody else holds it, it has already returned an
\* error, so it never depends on the other holder letting go.
C15_AbortIfContended == \A p \in Procs : Running(p) => ~Blocked(p)

\* how many times the invocations together have done op
Total(op) ==
    Cardinality({x \in UNION {{<<q, k>> : k \in 1..Len(procs[q].ops)} : q \in Procs} :
                    procs[x[1]].ops[x[2]] = op})

\* C16: once an invocation that started from the checkpoint of a killed one
\* has returned, it has done no initial rename of its own, and the
\* invocations of the job have together done one initial rename and 10
\* obfuscation renames.
C16_ResumeNoRepeat ==
    \A p \in Procs :
        (Eligible /\ procs[p].resume /\ Returned(p)) =>
            /\ ~Has(p, "rename")
            /\ Total("rename") = 1
            /\ Total("obfuscate") = RenameRounds

\* C17: the Pass of a checkpoint on disk is at least 0 and at most the pass
\* count the invocations were given.
C17_PassBound == meta.st = "full" => (0 <= meta.rec.Pass /\ meta.rec.Pass <= passes)

\* C18: the buffer an overwrite pass writes at offset 0 is as long as the
\* working file is at the time of the write.
C18_FullCoverage ==
    [][impl # "simple" =>
        \A p \in Procs : Did(p, "write") =>
            inodes'[procs[p].tfd].lastLen = inodes[procs[p].tfd].size]_vars

\* the names of the job that are on disk
JobNames == {n \in DOMAIN dir : JobName(n)}

\* C19: once the first rename of the job is done, the original path and the
\* checkpoint's TempPath are never both on disk, and at most one name of the
\* job is.
C19_SingleLocation ==
    Total("rename") >= 1 =>
        /\ ~(Path \in DOMAIN dir /\ meta.st = "full" /\ meta.rec.TempPath \in DOMAIN dir)
        /\ Cardinality(JobNames) <= 1

C19_Witness ==
    /\ meta.st = "full" /\ meta.rec.TempPath \in DOMAIN dir /\ Path \notin DOMAIN dir
    /\ Total("obfuscate") >= 1
    /\ \E p, q \in Procs : procs[p].pc = "killed" /\ Returned(q) /\ procs[q].resume

\* C20: once an invocation has deleted the checkpoint and returned success, no
\* step of another invocation creates the checkpoint file again; and when all
\* invocations have returned and one of them succeeded, no checkpoint exists.
C20_NoOrphanedCheckpoint ==
    [][impl # "simple" =>
        /\ ((\E p \in Procs : Ok(p)) /\ meta = NoFile) => meta' = NoFile
        /\ ((\A p \in Procs : Returned(p)') /\ (\E p \in Procs : Ok(p)')) =>
                meta' = NoFile]_vars

====
